---- MODULE Spec2Model ----
(***************************************************************************)
(* A model of the cron-exp crate: the expression parser (Schedule::from_str *)
(* and parse_field), the occurrence search (Schedule::after / before with  *)
(* its ResetHelper) and the ScheduleIterator built on them.                *)
(*                                                                         *)
(* Text is a sequence of one-character strings.  An instant is a civil     *)
(* time in its timezone, a record [year, month, day, hour, minute,         *)
(* second], and where it matters the offset from UTC it is read at.        *)
(***************************************************************************)
EXTENDS Integers, Sequences, FiniteSets, TLC

VARIABLES
    expression,         \* the text handed to Schedule::from_str
    parsed,             \* the Result of from_str, [kind |-> "unparsed"] before the call
    starting_datetime,  \* the instant handed to iter_from
    timezone,           \* its timezone: "UTC" or "Europe/London"
    offset,             \* the offset from UTC of previous_datetime, in hours
    is_done,            \* ScheduleIterator.is_done
    previous_datetime,  \* ScheduleIterator.previous_datetime
    calls,              \* the advances made so far: <<[op, from, result], ...>>
    pc,                 \* "start", "parsed", "rejected", "iterating", "searching",
                        \* "aborted" (a panic), "hung" (a search without end)
    direction,          \* of the search in progress: "Forward", "Back", or "none"
    helper,             \* its ResetHelper
    level,              \* its innermost running loop: "year" ... "second"
    candidate,          \* the loop variables year, month, day, hour, minute
    ranges              \* for each loop, what is left of its range: <<lo, hi>>

iterator == <<starting_datetime, timezone, offset, is_done, previous_datetime, calls>>
running == <<direction, helper, level, candidate, ranges>>
vars == <<expression, parsed, iterator, pc, running>>

(***************************************************************************)
(* Program constants.                                                      *)
(***************************************************************************)
MIN_YEAR == 1970
MAX_YEAR == 2099

MONTHS == 1..12
DAYS == 1..31
HOURS == 0..23
MINUTES_OR_SECONDS == 0..59
DAYS_OF_WEEK == 1..7
EMPTY == {}

(***************************************************************************)
(* Bounds of the model.                                                    *)
(***************************************************************************)
\* The number of advances made on one iterator.
MaxAdvances == 3
\* The number of consecutive years an unbounded forward search examines
\* before the model reports that it will never return: the Gregorian
\* calendar repeats every 400 years, weekdays included, so a year range
\* `from_year..` that holds no match in the first year plus one whole cycle
\* holds none at all.
SearchHorizon == 401

(***************************************************************************)
(* The calendar primitive (chrono).                                        *)
(***************************************************************************)
is_leap_year(year) ==
    LET by_four == year % 4 = 0
        by_hundred == year % 100 = 0
        by_four_hundred == year % 400 = 0
    IN  by_four /\ ((~by_hundred) \/ by_four_hundred)

days_in_month(month, year) ==
    IF month \in {9, 4, 6, 11} THEN 30
    ELSE IF month = 2 /\ is_leap_year(year) THEN 29
    ELSE IF month = 2 THEN 28
    ELSE 31

DateTime(y, mo, d, h, mi, s) ==
    [year |-> y, month |-> mo, day |-> d, hour |-> h, minute |-> mi, second |-> s]

\* Days of the year that precede the first of `month`.
DaysBeforeMonth(month, year) ==
    LET cum == <<0, 31, 59, 90, 120, 151, 181, 212, 243, 273, 304, 334>>
    IN  cum[month] + (IF month > 2 /\ is_leap_year(year) THEN 1 ELSE 0)

\* The day count of a date in the proleptic Gregorian calendar
\* (0001-01-01 is day 1, a Monday).
DayNumber(year, month, day) ==
    365 * (year - 1) + ((year - 1) \div 4) - ((year - 1) \div 100)
        + ((year - 1) \div 400) + DaysBeforeMonth(month, year) + day

\* chrono's Weekday::number_from_sunday: Sunday = 1 ... Saturday = 7.
number_from_sunday(dt) == (DayNumber(dt.year, dt.month, dt.day) % 7) + 1

\* The order of instants on the time line.
Before(a, b) ==
    LET da == DayNumber(a.year, a.month, a.day)
        db == DayNumber(b.year, b.month, b.day)
    IN  \/ da < db
        \/ /\ da = db
           /\ a.hour * 3600 + a.minute * 60 + a.second
                < b.hour * 3600 + b.minute * 60 + b.second

\* dt + Duration::minutes(1), seconds kept.
PlusMinute(dt) ==
    IF dt.minute < 59 THEN [dt EXCEPT !.minute = dt.minute + 1]
    ELSE IF dt.hour < 23 THEN [dt EXCEPT !.minute = 0, !.hour = dt.hour + 1]
    ELSE IF dt.day < days_in_month(dt.month, dt.year)
        THEN [dt EXCEPT !.minute = 0, !.hour = 0, !.day = dt.day + 1]
    ELSE IF dt.month < 12
        THEN [dt EXCEPT !.minute = 0, !.hour = 0, !.day = 1, !.month = dt.month + 1]
    ELSE [dt EXCEPT !.minute = 0, !.hour = 0, !.day = 1, !.month = 1,
                    !.year = dt.year + 1]

\* dt + Duration::seconds(1).
PlusSecond(dt) ==
    IF dt.second < 59 THEN [dt EXCEPT !.second = dt.second + 1]
    ELSE PlusMinute([dt EXCEPT !.second = 0])

\* dt - Duration::minutes(1), seconds kept.
MinusMinute(dt) ==
    IF dt.minute > 0 THEN [dt EXCEPT !.minute = dt.minute - 1]
    ELSE IF dt.hour > 0 THEN [dt EXCEPT !.minute = 59, !.hour = dt.hour - 1]
    ELSE IF dt.day > 1
        THEN [dt EXCEPT !.minute = 59, !.hour = 23, !.day = dt.day - 1]
    ELSE IF dt.month > 1
        THEN [dt EXCEPT !.minute = 59, !.hour = 23,
                        !.day = days_in_month(dt.month - 1, dt.year),
                        !.month = dt.month - 1]
    ELSE [dt EXCEPT !.minute = 59, !.hour = 23, !.day = 31, !.month = 12,
                    !.year = dt.year - 1]

\* dt - Duration::seconds(1).
MinusSecond(dt) ==
    IF dt.second > 0 THEN [dt EXCEPT !.second = dt.second - 1]
    ELSE MinusMinute([dt EXCEPT !.second = 59])

\* dt + Duration::hours(1) and dt - Duration::hours(1).
PlusHour(dt) == [PlusMinute([dt EXCEPT !.minute = 59]) EXCEPT !.minute = dt.minute]
MinusHour(dt) == [MinusMinute([dt EXCEPT !.minute = 0]) EXCEPT !.minute = dt.minute]

(***************************************************************************)
(* Timezones (chrono, chrono-tz).  UTC has one offset.  Europe/London, by  *)
(* the rule in force since 1996, is one hour ahead of UTC from 01:00 UTC   *)
(* on the last Sunday of March to 01:00 UTC on the last Sunday of October: *)
(* on the first day the civil times 01:00:00 .. 01:59:59 do not exist, on  *)
(* the second they occur twice.                                            *)
(***************************************************************************)
LastSunday(year, month) ==
    CHOOSE d \in 25..31 : number_from_sunday(DateTime(year, month, d, 0, 0, 0)) = 1

\* The place of an hour within its year.
HourOfYear(month, day, hour) == (month * 32 + day) * 24 + hour

\* TimeZone::offset_from_utc_datetime, in hours.
offset_from_utc_datetime(tz, utc) ==
    IF /\ tz = "Europe/London"
       /\ HourOfYear(utc.month, utc.day, utc.hour)
                >= HourOfYear(3, LastSunday(utc.year, 3), 1)
       /\ HourOfYear(utc.month, utc.day, utc.hour)
                < HourOfYear(10, LastSunday(utc.year, 10), 1)
    THEN 1 ELSE 0

\* TimeZone::offset_from_local_datetime: a LocalResult, None for a civil
\* time that does not exist, Ambiguous for one that occurs twice.
offset_from_local_datetime(tz, local) ==
    IF tz # "Europe/London" THEN [kind |-> "Single", offset |-> 0]
    ELSE IF local.month = 3 /\ local.day = LastSunday(local.year, 3) /\ local.hour = 1
    THEN [kind |-> "None", offset |-> 0]
    ELSE IF local.month = 10 /\ local.day = LastSunday(local.year, 10) /\ local.hour = 1
    THEN [kind |-> "Ambiguous", offset |-> 1]
    ELSE IF /\ HourOfYear(local.month, local.day, local.hour)
                    >= HourOfYear(3, LastSunday(local.year, 3), 2)
            /\ HourOfYear(local.month, local.day, local.hour)
                    < HourOfYear(10, LastSunday(local.year, 10), 1)
    THEN [kind |-> "Single", offset |-> 1]
    ELSE [kind |-> "Single", offset |-> 0]

\* DateTime::naive_utc: the UTC civil time of an instant read at `off`.
naive_utc(dt, off) == IF off = 1 THEN MinusHour(dt) ELSE dt

\* TimeZone::from_utc_datetime, then the civil fields DateTime<Tz> shows.
from_utc_datetime(tz, utc) ==
    IF offset_from_utc_datetime(tz, utc) = 1 THEN PlusHour(utc) ELSE utc

\* A candidate taken at any offset its civil time may have.
and_hms_opt_any_offset(tz, year, month, day, hour, minute, second) ==
    IF hour <= 23 /\ minute <= 59 /\ second <= 59
    THEN [kind |-> "Some", value |-> DateTime(year, month, day, hour, minute, second)]
    ELSE [kind |-> "None"]

\* Date<Tz>::and_hms_opt on timezone.ymd(year, month, day): None when the
\* time of day does not exist, and, ending in
\* from_local_datetime(..).single(), None as well when the civil time does
\* not exist in the timezone or occurs twice.
and_hms_opt(tz, year, month, day, hour, minute, second) ==
    IF /\ hour <= 23 /\ minute <= 59 /\ second <= 59
       /\ offset_from_local_datetime(
                tz, DateTime(year, month, day, hour, minute, second)).kind = "Single"
    THEN [kind |-> "Some", value |-> DateTime(year, month, day, hour, minute, second)]
    ELSE [kind |-> "None"]

(***************************************************************************)
(* ResetHelper: for each field, whether the search is still at the value   *)
(* of the (adjusted) reference instant, and the reset value to use after.  *)
(***************************************************************************)
ResetHelper_new(dt, dir) ==
    IF dir = "Forward"
    THEN [initial_datetime |-> dt,
          initial_seconds |-> TRUE, initial_minutes |-> TRUE, initial_hours |-> TRUE,
          initial_days |-> TRUE, initial_months |-> TRUE,
          reset_seconds |-> 0, reset_minutes |-> 0, reset_hours |-> 0,
          reset_days |-> 1, reset_months |-> 1]
    ELSE [initial_datetime |-> dt,
          initial_seconds |-> TRUE, initial_minutes |-> TRUE, initial_hours |-> TRUE,
          initial_days |-> TRUE, initial_months |-> TRUE,
          reset_seconds |-> 59, reset_minutes |-> 59, reset_hours |-> 23,
          reset_days |-> 31, reset_months |-> 12]

helper_reset_seconds(h) ==
    IF h.initial_seconds THEN [h EXCEPT !.initial_seconds = FALSE] ELSE h

helper_reset_minutes(h) ==
    IF h.initial_minutes
    THEN helper_reset_seconds([h EXCEPT !.initial_minutes = FALSE])
    ELSE h

helper_reset_hours(h) ==
    IF h.initial_hours
    THEN helper_reset_minutes([h EXCEPT !.initial_hours = FALSE])
    ELSE h

helper_reset_days(h) ==
    IF h.initial_days
    THEN helper_reset_hours([h EXCEPT !.initial_days = FALSE])
    ELSE h

helper_reset_months(h) ==
    IF h.initial_months
    THEN helper_reset_days([h EXCEPT !.initial_months = FALSE])
    ELSE h

helper_seconds(h) ==
    IF h.initial_seconds THEN h.initial_datetime.second ELSE h.reset_seconds

helper_minutes(h) ==
    IF h.initial_minutes THEN h.initial_datetime.minute ELSE h.reset_minutes

helper_hours(h) ==
    IF h.initial_hours THEN h.initial_datetime.hour ELSE h.reset_hours

helper_days(h) ==
    IF h.initial_days THEN h.initial_datetime.day ELSE h.reset_days

helper_months(h) ==
    IF h.initial_months THEN h.initial_datetime.month ELSE h.reset_months

(***************************************************************************)
(* Schedule: seven constraints, each [kind, set] with kind "All",          *)
(* "Constrained", and for seconds "Ignore", for years "Unbound".           *)
(***************************************************************************)
All == [kind |-> "All", set |-> {}]
Constrained(set) == [kind |-> "Constrained", set |-> set]
Ignore == [kind |-> "Ignore", set |-> {}]
Unbound == [kind |-> "Unbound", set |-> {}]

\* The reference instant moved one step in the dir of the search.
date(schedule, dt, dir) ==
    IF dir = "Forward"
    THEN (IF schedule.seconds.kind = "Ignore" THEN PlusMinute(dt) ELSE PlusSecond(dt))
    ELSE (IF schedule.seconds.kind = "Ignore" THEN MinusMinute(dt) ELSE MinusSecond(dt))

\* Schedule::years: the years the search visits, as an interval [lo, hi]
\* walked upward (Forward) or downward (Back), and the set the year must be in.
\* BTreeSet::range panics when its start is greater than its end; a plain
\* integer range is then merely empty.  `from_year..` has no end: the model
\* walks SearchHorizon years of it and marks the range endless.
years(schedule, dt, dir) ==
    LET from_year == dt.year
        max(a, b) == IF a >= b THEN a ELSE b
        min(a, b) == IF a <= b THEN a ELSE b
    IN  IF dir = "Forward"
        THEN CASE schedule.years.kind = "All" ->
                    [panic |-> FALSE, endless |-> FALSE,
                     lo |-> max(from_year, MIN_YEAR), hi |-> MAX_YEAR,
                     set |-> MIN_YEAR..MAX_YEAR]
               [] schedule.years.kind = "Constrained" ->
                    [panic |-> max(from_year, MIN_YEAR) > MAX_YEAR, endless |-> FALSE,
                     lo |-> max(from_year, MIN_YEAR), hi |-> MAX_YEAR,
                     set |-> schedule.years.set]
               [] schedule.years.kind = "Unbound" ->
                    [panic |-> FALSE, endless |-> TRUE,
                     lo |-> from_year, hi |-> from_year + SearchHorizon - 1,
                     set |-> from_year..(from_year + SearchHorizon - 1)]
        ELSE CASE schedule.years.kind = "All" ->
                    [panic |-> FALSE, endless |-> FALSE,
                     lo |-> MIN_YEAR, hi |-> min(from_year, MAX_YEAR),
                     set |-> MIN_YEAR..MAX_YEAR]
               [] schedule.years.kind = "Constrained" ->
                    [panic |-> MIN_YEAR > min(from_year, MAX_YEAR), endless |-> FALSE,
                     lo |-> MIN_YEAR, hi |-> min(from_year, MAX_YEAR),
                     set |-> schedule.years.set]
               [] schedule.years.kind = "Unbound" ->
                    [panic |-> FALSE, endless |-> FALSE,
                     lo |-> 0, hi |-> from_year,
                     set |-> 0..from_year]

schedule_months(schedule) ==
    IF schedule.months.kind = "All" THEN MONTHS ELSE schedule.months.set

schedule_days_of_month(schedule) ==
    IF schedule.days_of_month.kind = "All" THEN DAYS ELSE schedule.days_of_month.set

schedule_hours(schedule) ==
    IF schedule.hours.kind = "All" THEN HOURS ELSE schedule.hours.set

schedule_minutes(schedule) ==
    IF schedule.minutes.kind = "All" THEN MINUTES_OR_SECONDS ELSE schedule.minutes.set

schedule_seconds(schedule) ==
    CASE schedule.seconds.kind = "All" -> MINUTES_OR_SECONDS
      [] schedule.seconds.kind = "Constrained" -> schedule.seconds.set
      [] schedule.seconds.kind = "Ignore" -> EMPTY

schedule_days_of_week(schedule) ==
    IF schedule.days_of_week.kind = "All" THEN DAYS_OF_WEEK ELSE schedule.days_of_week.set

(***************************************************************************)
(* Text primitives (std): a text is a sequence of one-character strings.   *)
(***************************************************************************)
Ok(value) == [kind |-> "Ok", value |-> value]
Err(error, detail) == [kind |-> "Err", error |-> error, detail |-> detail]
Panic == [kind |-> "panic"]

Digits == <<"0", "1", "2", "3", "4", "5", "6", "7", "8", "9">>
Lower == <<"a", "b", "c", "d", "e", "f", "g", "h", "i", "j", "k", "l", "m",
           "n", "o", "p", "q", "r", "s", "t", "u", "v", "w", "x", "y", "z">>
Upper == <<"A", "B", "C", "D", "E", "F", "G", "H", "I", "J", "K", "L", "M",
           "N", "O", "P", "Q", "R", "S", "T", "U", "V", "W", "X", "Y", "Z">>
Whitespace == {" ", "\t"}

IsDigit(c) == \E i \in 1..10 : Digits[i] = c
DigitValue(c) == (CHOOSE i \in 1..10 : Digits[i] = c) - 1

\* str::to_uppercase.
to_uppercase(s) ==
    [i \in 1..Len(s) |->
        IF \E k \in 1..26 : Lower[k] = s[i]
        THEN Upper[CHOOSE k \in 1..26 : Lower[k] = s[i]]
        ELSE s[i]]

\* The index of the first `sep` in s, 0 when there is none.
Find(s, sep) ==
    IF \E i \in 1..Len(s) : s[i] = sep
    THEN CHOOSE i \in 1..Len(s) : s[i] = sep /\ \A j \in 1..(i - 1) : s[j] # sep
    ELSE 0

\* str::split(sep): every piece, the empty ones included.
RECURSIVE split(_, _)
split(s, sep) ==
    LET i == Find(s, sep)
    IN  IF i = 0 THEN <<s>>
        ELSE <<SubSeq(s, 1, i - 1)>> \o split(SubSeq(s, i + 1, Len(s)), sep)

\* str::splitn(2, sep): the text before the first `sep` and the text after it.
splitn2(s, sep) ==
    LET i == Find(s, sep)
    IN  IF i = 0 THEN <<s>>
        ELSE <<SubSeq(s, 1, i - 1), SubSeq(s, i + 1, Len(s))>>

\* str::split_whitespace: the maximal runs of non-whitespace characters.
RECURSIVE split_whitespace(_)
split_whitespace(s) ==
    IF s = <<>> THEN <<>>
    ELSE IF s[1] \in Whitespace THEN split_whitespace(Tail(s))
    ELSE LET stop == IF \E i \in 1..Len(s) : s[i] \in Whitespace
                     THEN CHOOSE i \in 1..Len(s) :
                            s[i] \in Whitespace /\ \A j \in 1..(i - 1) : s[j] \notin Whitespace
                     ELSE Len(s) + 1
         IN  <<SubSeq(s, 1, stop - 1)>> \o split_whitespace(SubSeq(s, stop, Len(s)))

RECURSIVE DecimalValue(_)
DecimalValue(s) ==
    IF s = <<>> THEN 0
    ELSE 10 * DecimalValue(SubSeq(s, 1, Len(s) - 1)) + DigitValue(s[Len(s)])

\* str::parse::<u32>() and ::<usize>(): an optional `+`, then decimal digits.
\* The texts of the model hold fewer digits than either type's maximum, so
\* the PosOverflow error is not reached here.
parse_int(s) ==
    IF s = <<>> THEN Err("ParseIntError", <<"Empty">>)
    ELSE LET digits == IF s[1] = "+" THEN Tail(s) ELSE s
         IN  IF digits = <<>> \/ \E i \in 1..Len(digits) : ~IsDigit(digits[i])
             THEN Err("ParseIntError", <<"InvalidDigit">>)
             ELSE Ok(DecimalValue(digits))

(***************************************************************************)
(* The expression parser.                                                  *)
(***************************************************************************)
MonthNames == << <<"J", "A", "N">>, <<"F", "E", "B">>, <<"M", "A", "R">>,
                 <<"A", "P", "R">>, <<"M", "A", "Y">>, <<"J", "U", "N">>,
                 <<"J", "U", "L">>, <<"A", "U", "G">>, <<"S", "E", "P">>,
                 <<"O", "C", "T">>, <<"N", "O", "V">>, <<"D", "E", "C">> >>
MonthDigits == << <<"1">>, <<"2">>, <<"3">>, <<"4">>, <<"5">>, <<"6">>, <<"7">>,
                  <<"8">>, <<"9">>, <<"1", "0">>, <<"1", "1">>, <<"1", "2">> >>
DayNames == << <<"S", "U", "N">>, <<"M", "O", "N">>, <<"T", "U", "E">>,
               <<"W", "E", "D">>, <<"T", "H", "U">>, <<"F", "R", "I">>,
               <<"S", "A", "T">> >>

month(value) ==
    LET v == to_uppercase(value)
    IN  IF \E n \in 1..12 : v = MonthNames[n] \/ v = MonthDigits[n]
        THEN Ok(CHOOSE n \in 1..12 : v = MonthNames[n] \/ v = MonthDigits[n])
        ELSE Err("InvalidMonthIndicator", value)

\* A reading of weekdays that gives both dialects the digits 1..7.
day_of_week_one_dialect(value, is_vixie) ==
    LET v == to_uppercase(value)
        vixie(n) == v = DayNames[n] \/ v = <<Digits[n + 1]>>
    IN  IF \E n \in 1..7 : vixie(n) THEN Ok(CHOOSE n \in 1..7 : vixie(n))
        ELSE Err("InvalidDayOfWeekIndicator", value)

day_of_week(value, is_vixie) ==
    LET v == to_uppercase(value)
        vixie(n) == v = DayNames[n] \/ v = <<Digits[n + 1]>>
        crontab(n) == \/ v = DayNames[n]
                      \/ (n = 1 /\ v \in {<<"0">>, <<"7">>})
                      \/ (n > 1 /\ v = <<Digits[n]>>)
    IN  IF is_vixie
        THEN (IF \E n \in 1..7 : vixie(n) THEN Ok(CHOOSE n \in 1..7 : vixie(n))
              ELSE Err("InvalidDayOfWeekIndicator", value))
        ELSE (IF \E n \in 1..7 : crontab(n) THEN Ok(CHOOSE n \in 1..7 : crontab(n))
              ELSE Err("InvalidDayOfWeekIndicator", value))

parse_time_unit(s, is_vixie, is_dom, is_dow) ==
    IF is_dom THEN month(s)
    ELSE IF is_dow THEN day_of_week(s, is_vixie)
    ELSE parse_int(s)

parse_range(left_range, right_range, is_vixie, is_dom, is_dow) ==
    LET l == parse_time_unit(left_range, is_vixie, is_dom, is_dow)
        r == parse_time_unit(right_range, is_vixie, is_dom, is_dow)
    IN  IF l.kind # "Ok" THEN l
        ELSE IF r.kind # "Ok" THEN r
        ELSE Ok(<<l.value, r.value>>)

\* (from..=to).step_by(step): the values inserted, or the panic of step_by(0).
\* A stride counted from zero instead of from the first value.
step_by_from_zero(from, to, step) ==
    IF step = 0 THEN Panic
    ELSE Ok([all |-> FALSE, set |-> {i \in from..to : i % step = 0}])

step_by(from, to, step) ==
    IF step = 0 THEN Panic
    ELSE Ok([all |-> FALSE, set |-> {i \in from..to : (i - from) % step = 0}])

\* l < min || l > max || r < min || r > max || l > r
invalid_range(l, r, min, max) ==
    l < min \/ l > max \/ r < min \/ r > max \/ l > r

\* The arms of `match (left_dash, right_dash, right_step)`.  Each gives what
\* one comma-item does: Ok of the values to insert, or of `all` for an early
\* `return Ok(TimeRange::All)`; an error; or a panic.  `range` and `step`
\* are the outcomes of parse_range(..) and of step_value.parse().

\* (left_range, Some(right_range), Some(step_value))
range_step_arm(range, step, v, min, max) ==
    IF range.kind # "Ok" THEN range
    ELSE IF invalid_range(range.value[1], range.value[2], min, max)
    THEN Err("InvalidRange", v)
    ELSE IF step.kind # "Ok" THEN step
    ELSE step_by(range.value[1], range.value[2], step.value)

\* A plain range that is always kept as the set of its values.
range_arm_explicit(range, v, min, max) ==
    IF range.kind # "Ok" THEN range
    ELSE IF invalid_range(range.value[1], range.value[2], min, max)
    THEN Err("InvalidRange", v)
    ELSE Ok([all |-> FALSE, set |-> range.value[1]..range.value[2]])

\* (left_range, Some(right_range), None)
range_arm(range, v, min, max) ==
    IF range.kind # "Ok" THEN range
    ELSE IF invalid_range(range.value[1], range.value[2], min, max)
    THEN Err("InvalidRange", v)
    ELSE IF range.value[1] = min /\ range.value[2] = max
    THEN Ok([all |-> TRUE, set |-> {}])
    ELSE Ok([all |-> FALSE, set |-> range.value[1]..range.value[2]])

\* (left_most, None, Some(step_value))
step_arm(left_most, left, step, min, max) ==
    IF left_most = <<"*">>
    THEN (IF step.kind # "Ok" THEN step ELSE step_by(min, max, step.value))
    ELSE IF left.kind # "Ok" THEN left
    ELSE IF step.kind # "Ok" THEN step
    ELSE step_by(left.value, max, step.value)

\* (left_most, None, None)
value_arm(left_most, left) ==
    IF left_most = <<"*">> THEN Ok([all |-> TRUE, set |-> {}])
    ELSE IF left.kind # "Ok" THEN left
    ELSE Ok([all |-> FALSE, set |-> {left.value}])

\* The match itself, on the two splitn(2, ..) iterators of the item.
match_item(step_iter, dash_iter, v, min, max, is_vixie, is_dow, is_dom) ==
    IF Len(dash_iter) = 2 /\ Len(step_iter) = 2
    THEN range_step_arm(parse_range(dash_iter[1], dash_iter[2], is_vixie, is_dom, is_dow),
                        parse_int(step_iter[2]), v, min, max)
    ELSE IF Len(dash_iter) = 2
    THEN range_arm(parse_range(dash_iter[1], dash_iter[2], is_vixie, is_dom, is_dow),
                   v, min, max)
    ELSE IF Len(step_iter) = 2
    THEN step_arm(dash_iter[1], parse_time_unit(dash_iter[1], is_vixie, is_dom, is_dow),
                  parse_int(step_iter[2]), min, max)
    ELSE value_arm(dash_iter[1], parse_time_unit(dash_iter[1], is_vixie, is_dom, is_dow))

\* One turn of `for v in value.split(',')`.
parse_item(v, min, max, is_vixie, is_dow, is_dom) ==
    match_item(splitn2(v, "/"), splitn2(splitn2(v, "/")[1], "-"),
               v, min, max, is_vixie, is_dow, is_dom)

RECURSIVE parse_items(_, _, _, _, _, _, _, _)
\* What the loop does with the outcome of its n-th turn.
insert(item, items, n, set, min, max, is_vixie, is_dow, is_dom) ==
    IF item.kind # "Ok" THEN item
    ELSE IF item.value.all THEN Ok(All)
    ELSE parse_items(items, n + 1, set \cup item.value.set,
                     min, max, is_vixie, is_dow, is_dom)

\* The loop from its n-th turn on, `set` holding what was inserted so far.
parse_items(items, n, set, min, max, is_vixie, is_dow, is_dom) ==
    IF n > Len(items) THEN Ok(Constrained(set))
    ELSE insert(parse_item(items[n], min, max, is_vixie, is_dow, is_dom),
                items, n, set, min, max, is_vixie, is_dow, is_dom)

parse_field(value, min, max, is_vixie, is_dow, is_dom) ==
    parse_items(split(value, ","), 1, {}, min, max, is_vixie, is_dow, is_dom)

\* The outcome of the first field that is not Ok, the fields taken in the
\* order the struct literal evaluates them.
RECURSIVE first_failure(_, _)
first_failure(results, n) ==
    IF n > Len(results) THEN Ok(<<>>)
    ELSE IF results[n].kind # "Ok" THEN results[n]
    ELSE first_failure(results, n + 1)

\* The struct literal of the arm `5 =>`, r the outcomes of its parse_field(..)?
crontab(r) ==
    IF first_failure(r, 1).kind # "Ok" THEN first_failure(r, 1)
    ELSE Ok([seconds |-> Ignore,
             minutes |-> r[1].value,
             hours |-> r[2].value,
             days_of_month |-> r[3].value,
             months |-> r[4].value,
             days_of_week |-> r[5].value,
             years |-> Unbound])

\* A struct literal for six fields that leaves the year Unbound.
vixie_unbound(r) ==
    IF first_failure(r, 1).kind # "Ok" THEN first_failure(r, 1)
    ELSE Ok([seconds |-> r[1].value,
             minutes |-> r[2].value,
             hours |-> r[3].value,
             days_of_month |-> r[4].value,
             months |-> r[5].value,
             days_of_week |-> r[6].value,
             years |-> Unbound])

\* The struct literal of the arm `6 =>`.
vixie(r) ==
    IF first_failure(r, 1).kind # "Ok" THEN first_failure(r, 1)
    ELSE Ok([seconds |-> r[1].value,
             minutes |-> r[2].value,
             hours |-> r[3].value,
             days_of_month |-> r[4].value,
             months |-> r[5].value,
             days_of_week |-> r[6].value,
             years |-> All])

\* The struct literal of the arm `7 =>`.
vixie_year(r) ==
    IF first_failure(r, 1).kind # "Ok" THEN first_failure(r, 1)
    ELSE Ok([seconds |-> r[1].value,
             minutes |-> r[2].value,
             hours |-> r[3].value,
             days_of_month |-> r[4].value,
             months |-> r[5].value,
             days_of_week |-> r[6].value,
             years |-> r[7].value])

\* `match fields.len()`.
match_fields(fields) ==
    CASE Len(fields) = 5 ->
            crontab(<< parse_field(fields[1], 0, 59, FALSE, FALSE, FALSE),
                       parse_field(fields[2], 0, 23, FALSE, FALSE, FALSE),
                       parse_field(fields[3], 1, 31, FALSE, FALSE, FALSE),
                       parse_field(fields[4], 1, 12, FALSE, FALSE, TRUE),
                       parse_field(fields[5], 1, 7, FALSE, TRUE, FALSE) >>)
      [] Len(fields) = 6 ->
            vixie(<< parse_field(fields[1], 0, 59, TRUE, FALSE, FALSE),
                     parse_field(fields[2], 0, 59, TRUE, FALSE, FALSE),
                     parse_field(fields[3], 0, 23, TRUE, FALSE, FALSE),
                     parse_field(fields[4], 1, 31, TRUE, FALSE, FALSE),
                     parse_field(fields[5], 1, 12, TRUE, FALSE, TRUE),
                     parse_field(fields[6], 1, 7, TRUE, TRUE, FALSE) >>)
      [] Len(fields) = 7 ->
            vixie_year(<< parse_field(fields[1], 0, 59, TRUE, FALSE, FALSE),
                          parse_field(fields[2], 0, 59, TRUE, FALSE, FALSE),
                          parse_field(fields[3], 0, 23, TRUE, FALSE, FALSE),
                          parse_field(fields[4], 1, 31, TRUE, FALSE, FALSE),
                          parse_field(fields[5], 1, 12, TRUE, FALSE, TRUE),
                          parse_field(fields[6], 1, 7, TRUE, TRUE, FALSE),
                          parse_field(fields[7], MIN_YEAR, MAX_YEAR, TRUE, FALSE, FALSE) >>)
      [] OTHER -> Err("ArgumentCount", <<>>)

from_str(s) == match_fields(split_whitespace(s))

(***************************************************************************)
(* The inputs of the model: expressions and starting instants.             *)
(***************************************************************************)
RECURSIVE Dec(_)
\* The decimal text of a number.
Dec(n) == IF n < 10 THEN <<Digits[n + 1]>> ELSE Dec(n \div 10) \o <<Digits[(n % 10) + 1]>>

RECURSIVE Join(_)
\* The fields, one space between them.
Join(fields) ==
    IF Len(fields) = 0 THEN <<>>
    ELSE IF Len(fields) = 1 THEN fields[1]
    ELSE fields[1] \o <<" ">> \o Join(Tail(fields))

star == <<"*">>
comma == <<",">>
dash == <<"-">>
slash == <<"/">>

\* "*/5 * * * * *"
EveryFiveSeconds == Join(<<star \o slash \o Dec(5), star, star, star, star, star>>)
\* "*/5 * * * * * *"
EveryFiveSecondsYear == EveryFiveSeconds \o <<" ">> \o star
\* "*/5 * * * *"
EveryFiveMinutes == Join(<<star \o slash \o Dec(5), star, star, star, star>>)
\* "0   30   9,12,15     1,15       May-Aug  Mon,Wed,Fri  2018/2"
DocExample ==
    Dec(0) \o <<" ", " ", " ">> \o Dec(30) \o <<" ", " ", " ">>
        \o Dec(9) \o comma \o Dec(12) \o comma \o Dec(15) \o <<" ", " ">>
        \o Dec(1) \o comma \o Dec(15) \o <<" ", "\t">>
        \o <<"M", "a", "y">> \o dash \o <<"A", "u", "g">> \o <<" ", " ">>
        \o <<"M", "o", "n">> \o comma \o <<"W", "e", "d">> \o comma \o <<"F", "r", "i">>
        \o <<" ", " ">> \o Dec(2018) \o slash \o Dec(2)
\* "0 5,13,40-42 17 1 Jan *"
NextAndPrev ==
    Join(<<Dec(0), Dec(5) \o comma \o Dec(13) \o comma \o Dec(40) \o dash \o Dec(42),
           Dec(17), Dec(1), <<"J", "a", "n">>, star>>)
\* "0 5,13,40-42 17 1 Jan * *"
NextAndPrevYear == NextAndPrev \o <<" ">> \o star
\* "* * * * * Sat,Sun *"
Weekend ==
    Join(<<star, star, star, star, star,
           <<"S", "a", "t">> \o comma \o <<"S", "u", "n">>, star>>)
\* "0 0 30 2 *": a day February never has.
FebruaryThirty == Join(<<Dec(0), Dec(0), Dec(30), Dec(2), star>>)
\* "0 0 29 2 *"
LeapDay == Join(<<Dec(0), Dec(0), Dec(29), Dec(2), star>>)
\* "30 12 * * 1-5": weekdays at 12:30.
WorkdayNoon == Join(<<Dec(30), Dec(12), star, star, Dec(1) \o dash \o Dec(5)>>)
\* "70/5 * * * * *": a seconds item that starts beyond the domain.
SecondsBeyond == Join(<<Dec(70) \o slash \o Dec(5), star, star, star, star, star>>)
\* "0 0 0 1 * * 2021"
FirstOfMonth2021 == Join(<<Dec(0), Dec(0), Dec(0), Dec(1), star, star, Dec(2021)>>)
\* "59 59 23 31 12 * 2098-2099"
LastSecond == Join(<<Dec(59), Dec(59), Dec(23), Dec(31), Dec(12), star,
                     Dec(2098) \o dash \o Dec(2099)>>)
\* "0 0 0 1 1 * 1970/50"
FirstSecond == Join(<<Dec(0), Dec(0), Dec(0), Dec(1), Dec(1), star,
                      Dec(1970) \o slash \o Dec(50)>>)
\* "0 0 12 29 FEB *"
LeapNoon == Join(<<Dec(0), Dec(0), Dec(12), Dec(29), <<"F", "E", "B">>, star>>)
\* "0 15 10 * * 2,4,6 *"
SomeWeekdays == Join(<<Dec(0), Dec(15), Dec(10), star, star,
                       Dec(2) \o comma \o Dec(4) \o comma \o Dec(6), star>>)
\* "": no field at all.
NoField == <<>>
\* "* * * *"
FourFields == Join(<<star, star, star, star>>)
\* "* * * * * * * *"
EightFields == Join(<<star, star, star, star, star, star, star, star>>)
\* "invalid * * * * *"
InvalidToken == Join(<<<<"i", "n", "v", "a", "l", "i", "d">>, star, star, star, star, star>>)
\* "*/0 * * * * *"
StepZero == Join(<<star \o slash \o Dec(0), star, star, star, star, star>>)

\* "*,invalid * * * * *": a malformed item after a `*`.
StarThenInvalid ==
    Join(<<star \o comma \o <<"i", "n", "v", "a", "l", "i", "d">>, star, star, star, star, star>>)
\* "1-5/x * * * * *": a step that is no number.
StepWord == Join(<<Dec(1) \o dash \o Dec(5) \o slash \o <<"x">>, star, star, star, star, star>>)
\* "5/-1 * * * * *": a negative step.
StepMinus == Join(<<Dec(5) \o slash \o dash \o Dec(1), star, star, star, star, star>>)
\* "0 0 0 1 1 * 2200": a year beyond the domain.
YearBeyond == Join(<<Dec(0), Dec(0), Dec(0), Dec(1), Dec(1), star, Dec(2200)>>)

\* "0-59 0-59 0-23 1-31 JAN-DEC SUN-SAT 1970-2099": every field its whole domain.
FullRanges ==
    Join(<<Dec(0) \o dash \o Dec(59), Dec(0) \o dash \o Dec(59), Dec(0) \o dash \o Dec(23),
           Dec(1) \o dash \o Dec(31), <<"J", "A", "N">> \o dash \o <<"D", "E", "C">>,
           <<"S", "U", "N">> \o dash \o <<"S", "A", "T">>,
           Dec(1970) \o dash \o Dec(2099)>>)
\* "0-59 0-23 1-31 1-DEC 0-6": the same for five fields.
FullRangesCrontab ==
    Join(<<Dec(0) \o dash \o Dec(59), Dec(0) \o dash \o Dec(23), Dec(1) \o dash \o Dec(31),
           Dec(1) \o dash \o <<"D", "E", "C">>, Dec(0) \o dash \o Dec(6)>>)

\* "0 0 * * 0,sat": five fields, Sunday by its digit 0.
SundayZero == Join(<<Dec(0), Dec(0), star, star, Dec(0) \o comma \o <<"s", "a", "t">>>>)
\* "0 0 * * 7,1": five fields, Sunday by its digit 7, Monday by 1.
SundaySeven == Join(<<Dec(0), Dec(0), star, star, Dec(7) \o comma \o Dec(1)>>)
\* "0 0 0 * * 1,tUe,7": six fields, Sunday by its digit 1.
VixieSunday ==
    Join(<<Dec(0), Dec(0), Dec(0), star, star,
           Dec(1) \o comma \o <<"t", "U", "e">> \o comma \o Dec(7)>>)
\* "0 0 0 * * 0": six fields and the digit 0.
VixieZero == Join(<<Dec(0), Dec(0), Dec(0), star, star, Dec(0)>>)

\* "0 0 0 29 2 * 2020": the leap day of 2020.
LeapDay2020 == Join(<<Dec(0), Dec(0), Dec(0), Dec(29), Dec(2), star, Dec(2020)>>)

\* "5-30/10,7,7 */20 8/8 15,1 mar-JUN/2,1 TUE-thu 2021,2020"
Mixed ==
    Join(<< Dec(5) \o dash \o Dec(30) \o slash \o Dec(10) \o comma \o Dec(7)
                \o comma \o Dec(7),
            star \o slash \o Dec(20),
            Dec(8) \o slash \o Dec(8),
            Dec(15) \o comma \o Dec(1),
            <<"m", "a", "r">> \o dash \o <<"J", "U", "N">> \o slash \o Dec(2)
                \o comma \o Dec(1),
            <<"T", "U", "E">> \o dash \o <<"t", "h", "u">>,
            Dec(2021) \o comma \o Dec(2020) >>)

\* "5,*/15 0 1 jan,Dec 1-5/2"
MixedCrontab ==
    Join(<< Dec(5) \o comma \o star \o slash \o Dec(15),
            Dec(0),
            Dec(1),
            <<"j", "a", "n">> \o comma \o <<"D", "e", "c">>,
            Dec(1) \o dash \o Dec(5) \o slash \o Dec(2) >>)

\* "30 1 * * *": daily at 01:30.
DailyHalfPastOne == Join(<<Dec(30), Dec(1), star, star, star>>)

\* "0 0 * * 0-7", "0 0 * * 1-7", "0 0 * * 5-7": weekday ranges that end in
\* the digit 7.
WeekZeroToSeven == Join(<<Dec(0), Dec(0), star, star, Dec(0) \o dash \o Dec(7)>>)
WeekOneToSeven == Join(<<Dec(0), Dec(0), star, star, Dec(1) \o dash \o Dec(7)>>)
FridayToSeven == Join(<<Dec(0), Dec(0), star, star, Dec(5) \o dash \o Dec(7)>>)

Expressions ==
    { EveryFiveSeconds, EveryFiveSecondsYear, EveryFiveMinutes, DocExample,
      NextAndPrev, NextAndPrevYear, Weekend, FebruaryThirty, LeapDay, WorkdayNoon,
      SecondsBeyond, FirstOfMonth2021, LastSecond, FirstSecond, LeapNoon,
      SomeWeekdays, NoField, FourFields, EightFields, InvalidToken, StepZero,
      StarThenInvalid, StepWord, StepMinus, YearBeyond,
      FullRanges, FullRangesCrontab,
      SundayZero, SundaySeven, VixieSunday, VixieZero, LeapDay2020,
      Mixed, MixedCrontab, DailyHalfPastOne,
      WeekZeroToSeven, WeekOneToSeven, FridayToSeven }

StartingInstants ==
    { DateTime(2021, 2, 1, 1, 1, 40),
      DateTime(2022, 6, 1, 8, 40, 1),
      DateTime(2021, 2, 14, 23, 49, 55),
      DateTime(2020, 2, 29, 12, 0, 0),
      DateTime(2020, 3, 15, 0, 0, 0),
      DateTime(2099, 12, 31, 23, 59, 58),
      DateTime(1970, 1, 1, 0, 0, 1),
      DateTime(1965, 6, 15, 10, 20, 30),
      DateTime(2100, 3, 1, 0, 0, 0),
      DateTime(2019, 10, 27, 1, 3, 29) }

\* Instants of Europe/London with their offsets: the one of
\* test_no_panic_on_nonexistent_time_after / _before, within the hour that
\* occurs twice; one before and one after the hour that does not exist.
LondonInstants ==
    { [dt |-> DateTime(2019, 10, 27, 1, 3, 29), offset |-> 1],
      [dt |-> DateTime(2019, 3, 31, 0, 52, 10), offset |-> 0],
      [dt |-> DateTime(2019, 3, 31, 2, 7, 0), offset |-> 1] }

\* What iter_from may be given.
Starting ==
    {[timezone |-> "UTC", dt |-> d, offset |-> 0] : d \in StartingInstants}
        \cup {[timezone |-> "Europe/London", dt |-> z.dt, offset |-> z.offset] :
                    z \in LondonInstants}

(***************************************************************************)
(* The state machine: parse an expression, make an iterator, advance it.   *)
(* An advance runs the search, Schedule::after (direction "Forward") or    *)
(* Schedule::before ("Back"): six nested `for` loops over BTreeSet ranges. *)
(* Each action for_<loop> is one turn of that loop: it takes the loop's    *)
(* next value and runs the body down to the inner loop's start, or, the    *)
(* range exhausted, runs what follows the loop in the enclosing body.      *)
(***************************************************************************)
NoDateTime == DateTime(0, 0, 0, 0, 0, 0)
NoHelper == ResetHelper_new(NoDateTime, "Forward")
Levels == {"year", "month", "day", "hour", "minute", "second"}
NoRanges == [l \in Levels |-> <<0, 0>>]
NoValue == -1

Init ==
    /\ expression \in Expressions
    /\ parsed = [kind |-> "unparsed"]
    /\ starting_datetime = NoDateTime
    /\ timezone = "UTC"
    /\ offset = 0
    /\ is_done = FALSE
    /\ previous_datetime = NoDateTime
    /\ calls = <<>>
    /\ pc = "start"
    /\ direction = "none"
    /\ helper = NoHelper
    /\ level = "none"
    /\ candidate = NoDateTime
    /\ ranges = NoRanges

\* Schedule::from_str(expression).
FromStr ==
    /\ pc = "start"
    /\ parsed' = from_str(expression)
    /\ pc' = CASE parsed'.kind = "Ok" -> "parsed"
               [] parsed'.kind = "Err" -> "rejected"
               [] OTHER -> "aborted"
    /\ UNCHANGED <<expression, iterator, running>>

\* schedule.iter_from(&dt): ScheduleIterator::new.
iter_from ==
    /\ pc = "parsed"
    /\ \E from \in Starting :
        /\ starting_datetime' = from.dt
        /\ previous_datetime' = from.dt
        /\ timezone' = from.timezone
        /\ offset' = from.offset
    /\ is_done' = FALSE
    /\ pc' = "iterating"
    /\ UNCHANGED <<expression, parsed, calls, running>>

\* The advance `op` ends with `result`: Some(instant) moves the cursor, None
\* marks the iterator done.  A panic unwinds out of the call and an endless
\* search never leaves it: neither writes to the iterator.
finish(op, result) ==
    /\ calls' = Append(calls, [op |-> op, from |-> previous_datetime, result |-> result])
    /\ previous_datetime' = IF result.kind = "Some" THEN result.value ELSE previous_datetime
    /\ offset' = IF result.kind = "Some"
                 THEN offset_from_local_datetime(timezone, result.value).offset
                 ELSE offset
    /\ is_done' = (is_done \/ result.kind = "None")
    /\ pc' = CASE result.kind = "panic" -> "aborted"
               [] result.kind = "diverge" -> "hung"
               [] OTHER -> "iterating"
    /\ direction' = "none"
    /\ helper' = NoHelper
    /\ level' = "none"
    /\ candidate' = NoDateTime
    /\ ranges' = NoRanges
    /\ UNCHANGED <<expression, parsed, starting_datetime, timezone>>

\* The start of Schedule::after / before: the reference moved one step, a
\* fresh helper, the range of years.
begin(op, dir) ==
    LET dt == from_utc_datetime(timezone,
                                date(parsed.value, naive_utc(previous_datetime, offset), dir))
        yrs == years(parsed.value, dt, dir)
    IN  IF yrs.panic THEN finish(op, [kind |-> "panic"])
        ELSE /\ pc' = "searching"
             /\ direction' = dir
             /\ helper' = ResetHelper_new(dt, dir)
             /\ level' = "year"
             /\ candidate' = NoDateTime
             /\ ranges' = [NoRanges EXCEPT !["year"] = <<yrs.lo, yrs.hi>>]
             /\ UNCHANGED <<expression, parsed, iterator>>

\* An advance-forward that does not look at is_done.
next_unguarded ==
    /\ pc = "iterating"
    /\ Len(calls) < MaxAdvances
    /\ begin("next", "Forward")

\* Iterator::next.
next ==
    /\ pc = "iterating"
    /\ Len(calls) < MaxAdvances
    /\ IF is_done THEN finish("next", [kind |-> "None"]) ELSE begin("next", "Forward")

\* DoubleEndedIterator::next_back.
next_back ==
    /\ pc = "iterating"
    /\ Len(calls) < MaxAdvances
    /\ IF is_done THEN finish("next_back", [kind |-> "None"]) ELSE begin("next_back", "Back")

op_of(dir) == IF dir = "Forward" THEN "next" ELSE "next_back"

\* The next value of `for x in set.range(lo..=hi)` (Forward: the least one)
\* or of `.range(lo..=hi).rev()` (Back: the greatest), NoValue at the end.
next_in(set, lo_hi, dir) ==
    LET lo == lo_hi[1]
        hi == lo_hi[2]
        rest == {x \in set : lo <= x /\ x <= hi}
    IN  IF lo > hi THEN NoValue
        ELSE IF dir = "Forward" /\ lo \in set THEN lo
        ELSE IF dir = "Back" /\ hi \in set THEN hi
        ELSE IF rest = {} THEN NoValue
        ELSE IF dir = "Forward" THEN CHOOSE x \in rest : \A y \in rest : x <= y
        ELSE CHOOSE x \in rest : \A y \in rest : x >= y

\* What is left of a range once x has been taken from it.
taken(lo_hi, x, dir) ==
    IF dir = "Forward" THEN <<x + 1, lo_hi[2]>> ELSE <<lo_hi[1], x - 1>>

\* The search goes on in loop `lv`.
step(lv, rs, h, c) ==
    /\ level' = lv
    /\ ranges' = rs
    /\ helper' = h
    /\ candidate' = c
    /\ UNCHANGED <<expression, parsed, iterator, pc, direction>>

\* `for x in set.range(lo..=hi)` starts: BTreeSet::range panics when
\* lo > hi.
enter(lv, lo, hi, rs, h, c) ==
    IF lo > hi THEN finish(op_of(direction), [kind |-> "panic"])
    ELSE step(lv, [rs EXCEPT ![lv] = <<lo, hi>>], h, c)

\* The innermost body: build the candidate, filter it by its weekday.
try(second, rs, c) ==
    LET built == and_hms_opt(timezone, c.year, c.month, c.day, c.hour, c.minute, second)
    IN  IF built.kind = "None" THEN step(level, rs, helper, c)
        ELSE IF number_from_sunday(built.value) \notin schedule_days_of_week(parsed.value)
        THEN step("day", rs, helper_reset_days(helper), c)
        ELSE finish(op_of(direction), built)

for_year ==
    /\ pc = "searching" /\ level = "year"
    /\ LET yrs == years(parsed.value, helper.initial_datetime, direction)
           year == next_in(yrs.set, ranges["year"], direction)
           months == schedule_months(parsed.value)
           month_start == helper_months(helper)
           h == IF month_start \notin months THEN helper_reset_months(helper) ELSE helper
           rs == [ranges EXCEPT !["year"] = taken(@, year, direction)]
           c == [candidate EXCEPT !.year = year]
       IN  IF year = NoValue
           THEN finish(op_of(direction),
                       [kind |-> IF yrs.endless THEN "diverge" ELSE "None"])
           ELSE IF direction = "Forward" THEN enter("month", month_start, 12, rs, h, c)
           ELSE enter("month", 1, month_start, rs, h, c)

for_month ==
    /\ pc = "searching" /\ level = "month"
    /\ LET mo == next_in(schedule_months(parsed.value), ranges["month"], direction)
           days_of_month == schedule_days_of_month(parsed.value)
           day_start == helper_days(helper)
           h == IF day_start \notin days_of_month THEN helper_reset_days(helper) ELSE helper
           rs == [ranges EXCEPT !["month"] = taken(@, mo, direction)]
           c == [candidate EXCEPT !.month = mo]
           last == days_in_month(mo, candidate.year)
       IN  IF mo = NoValue
           THEN step("year", ranges, helper_reset_months(helper), candidate)
           ELSE IF direction = "Forward" THEN enter("day", day_start, last, rs, h, c)
           ELSE enter("day", 1, IF last <= day_start THEN last ELSE day_start, rs, h, c)

for_day ==
    /\ pc = "searching" /\ level = "day"
    /\ LET day_of_month == next_in(schedule_days_of_month(parsed.value),
                                   ranges["day"], direction)
           hours == schedule_hours(parsed.value)
           hour_start == helper_hours(helper)
           h == IF hour_start \notin hours THEN helper_reset_hours(helper) ELSE helper
           rs == [ranges EXCEPT !["day"] = taken(@, day_of_month, direction)]
           c == [candidate EXCEPT !.day = day_of_month]
       IN  IF day_of_month = NoValue
           THEN step("month", ranges, helper_reset_days(helper), candidate)
           ELSE IF direction = "Forward" THEN enter("hour", hour_start, 23, rs, h, c)
           ELSE enter("hour", 0, hour_start, rs, h, c)

for_hour ==
    /\ pc = "searching" /\ level = "hour"
    /\ LET hour == next_in(schedule_hours(parsed.value), ranges["hour"], direction)
           minutes == schedule_minutes(parsed.value)
           minutes_start == helper_minutes(helper)
           h == IF minutes_start \notin minutes THEN helper_reset_minutes(helper) ELSE helper
           rs == [ranges EXCEPT !["hour"] = taken(@, hour, direction)]
           c == [candidate EXCEPT !.hour = hour]
       IN  IF hour = NoValue
           THEN step("day", ranges, helper_reset_hours(helper), candidate)
           ELSE IF direction = "Forward" THEN enter("minute", minutes_start, 59, rs, h, c)
           ELSE enter("minute", 0, minutes_start, rs, h, c)

for_minute ==
    /\ pc = "searching" /\ level = "minute"
    /\ LET minute == next_in(schedule_minutes(parsed.value), ranges["minute"], direction)
           seconds == schedule_seconds(parsed.value)
           ignore_seconds == seconds = {}
           seconds_start == helper_seconds(helper)
           h == IF seconds_start \notin seconds THEN helper_reset_seconds(helper) ELSE helper
           rs == [ranges EXCEPT !["minute"] = taken(@, minute, direction)]
           c == [candidate EXCEPT !.minute = minute]
       IN  IF minute = NoValue
           THEN step("hour", ranges, helper_reset_minutes(helper), candidate)
           ELSE IF ignore_seconds THEN try(0, rs, c)
           ELSE IF direction = "Forward" THEN enter("second", seconds_start, 59, rs, h, c)
           ELSE enter("second", 0, seconds_start, rs, h, c)

for_second ==
    /\ pc = "searching" /\ level = "second"
    /\ LET second == next_in(schedule_seconds(parsed.value), ranges["second"], direction)
           rs == [ranges EXCEPT !["second"] = taken(@, second, direction)]
       IN  IF second = NoValue
           THEN step("minute", ranges, helper_reset_seconds(helper), candidate)
           ELSE try(second, rs, candidate)

Next ==
    \/ FromStr
    \/ iter_from
    \/ next
    \/ next_back
    \/ for_year
    \/ for_month
    \/ for_day
    \/ for_hour
    \/ for_minute
    \/ for_second

Spec == Init /\ [][Next]_vars

(***************************************************************************)
(* Properties.  `calls` records every advance: the cursor it started from  *)
(* and how it ended.                                                       *)
(***************************************************************************)
\* The instants the nearest-match properties look for between a reference
\* and a result.
Moments ==
    StartingInstants \cup
        { DateTime(2021, 1, 1, 0, 0, 0),
          DateTime(2021, 2, 1, 0, 0, 0),
          DateTime(2022, 6, 1, 8, 40, 0),
          DateTime(2021, 2, 1, 1, 1, 45),
          DateTime(2021, 2, 1, 1, 1, 35),
          DateTime(2021, 1, 1, 17, 42, 0),
          DateTime(2020, 2, 29, 0, 0, 0),
          DateTime(2099, 12, 31, 23, 59, 59),
          DateTime(1970, 1, 1, 0, 0, 0) }

\* m satisfies every field constraint of the schedule; the year of a 6- or
\* 7-field schedule lies in MIN_YEAR..MAX_YEAR.
Satisfies(schedule, m) ==
    /\ CASE schedule.seconds.kind = "Ignore" -> m.second = 0
         [] schedule.seconds.kind = "All" -> m.second \in MINUTES_OR_SECONDS
         [] OTHER -> m.second \in schedule.seconds.set
    /\ IF schedule.minutes.kind = "All" THEN m.minute \in MINUTES_OR_SECONDS
       ELSE m.minute \in schedule.minutes.set
    /\ IF schedule.hours.kind = "All" THEN m.hour \in HOURS
       ELSE m.hour \in schedule.hours.set
    /\ IF schedule.days_of_month.kind = "All" THEN m.day \in DAYS
       ELSE m.day \in schedule.days_of_month.set
    /\ IF schedule.months.kind = "All" THEN m.month \in MONTHS
       ELSE m.month \in schedule.months.set
    /\ IF schedule.days_of_week.kind = "All" THEN TRUE
       ELSE number_from_sunday(m) \in schedule.days_of_week.set
    /\ CASE schedule.years.kind = "Unbound" -> TRUE
         [] schedule.years.kind = "All" -> m.year \in MIN_YEAR..MAX_YEAR
         [] OTHER -> m.year \in (schedule.years.set \cap (MIN_YEAR..MAX_YEAR))

\* The i-th advance ran a search: no earlier advance had exhausted the iterator.
Searched(i) == \A j \in 1..(i - 1) : calls[j].result.kind # "None"

\* C1: a forward search returns the nearest match after its reference t: no
\* instant m with t < m < r satisfies the schedule when it returns r, and
\* none after t satisfies it when it returns no-result.
C1_NearestAfter ==
    \A i \in 1..Len(calls) :
        (calls[i].op = "next" /\ Searched(i)) =>
            /\ calls[i].result.kind = "Some" =>
                 \A m \in Moments :
                    ~(/\ Before(calls[i].from, m)
                      /\ Before(m, calls[i].result.value)
                      /\ Satisfies(parsed.value, m))
            /\ calls[i].result.kind = "None" =>
                 \A m \in Moments :
                    ~(Before(calls[i].from, m) /\ Satisfies(parsed.value, m))

\* C2: a backward search returns the nearest match before its reference t:
\* when it returns r, no instant m with r < m < t satisfies the schedule.
C2_NearestBefore ==
    \A i \in 1..Len(calls) :
        (calls[i].op = "next_back" /\ calls[i].result.kind = "Some") =>
            \A m \in Moments :
                ~(/\ Before(calls[i].result.value, m)
                  /\ Before(m, calls[i].from)
                  /\ Satisfies(parsed.value, m))

\* C3: every instant an advance returns, in either direction, satisfies the
\* schedule, field by field.
C3_ReturnedSatisfies ==
    \A i \in 1..Len(calls) :
        calls[i].result.kind = "Some" => Satisfies(parsed.value, calls[i].result.value)

\* C4: an instant returned by advance-forward is strictly later than the
\* cursor it was computed from, one returned by advance-backward strictly
\* earlier.
C4_Monotonic ==
    \A i \in 1..Len(calls) :
        calls[i].result.kind = "Some" =>
            IF calls[i].op = "next"
            THEN Before(calls[i].from, calls[i].result.value)
            ELSE Before(calls[i].result.value, calls[i].from)

\* C5: when an advance returned a, the advance from a returned b, and the
\* next advance goes the other way, it returns a.
C5_Inverse ==
    \A i \in 2..(Len(calls) - 1) :
        (/\ calls[i - 1].result.kind = "Some"
         /\ calls[i].result.kind = "Some"
         /\ calls[i + 1].op # calls[i].op) =>
            calls[i + 1].result = calls[i - 1].result

\* C6: no advance aborts: each ends with an instant or with no-result.
C6_NeverAborts ==
    \A i \in 1..Len(calls) : calls[i].result.kind # "panic"

\* C7: every search comes to an end: no advance is left running for ever.
C7_Terminates ==
    pc # "hung"

\* C8: the forward sequence of a schedule with bounded years comes to its
\* end: an advance-forward whose reference, moved one step, lies beyond
\* MAX_YEAR returns no-result and leaves the iterator exhausted.
C8_Exhausts ==
    (parsed.kind = "Ok" /\ parsed.value.years.kind # "Unbound") =>
        \A i \in 1..Len(calls) :
            (/\ calls[i].op = "next"
             /\ date(parsed.value, calls[i].from, "Forward").year > MAX_YEAR) =>
                calls[i].result.kind = "None"

\* The instant most recently returned, the starting instant when there is none.
LastReturned ==
    LET some == {i \in 1..Len(calls) : calls[i].result.kind = "Some"}
    IN  IF some = {} THEN starting_datetime
        ELSE calls[CHOOSE i \in some : \A j \in some : j <= i].result.value

\* One step of an iterator, as C9 allows it.
ExhaustionStep ==
    /\ is_done => is_done'
    /\ (is_done /\ calls' # calls) =>
            /\ calls'[Len(calls')].result.kind = "None"
            /\ previous_datetime' = previous_datetime
    /\ (calls' # calls /\ calls'[Len(calls')].result.kind = "None") =>
            /\ is_done'
            /\ previous_datetime' = previous_datetime
    /\ (~is_done') => previous_datetime' = LastReturned'

\* C9: exhaustion is permanent and shared by both directions: an advance on
\* an exhausted iterator returns no-result, a failing advance leaves the
\* cursor where it was, and the cursor of an iterator that is not exhausted
\* is the starting instant or the instant most recently returned.
C9_ExhaustionPermanent == [][ExhaustionStep]_vars

\* An exhausted iterator was advanced again, the other way, to no result.
C9_Witness ==
    \E i \in 1..(Len(calls) - 1) :
        /\ calls[i].result.kind = "None"
        /\ calls[i + 1].op # calls[i].op
        /\ calls[i + 1].result.kind = "None"
        /\ is_done
        /\ previous_datetime = calls[i].from

\* What C10 says of the outcome of from_str, `fields` being the
\* whitespace-separated fields of the expression.
FieldCountSelects(fields) ==
    /\ Len(fields) \notin {5, 6, 7} => parsed = Err("ArgumentCount", <<>>)
    /\ (Len(fields) = 5 /\ parsed.kind = "Ok") =>
            /\ parsed.value.seconds = Ignore
            /\ Ok(parsed.value.minutes) = parse_field(fields[1], 0, 59, FALSE, FALSE, FALSE)
            /\ Ok(parsed.value.hours) = parse_field(fields[2], 0, 23, FALSE, FALSE, FALSE)
            /\ Ok(parsed.value.days_of_month)
                    = parse_field(fields[3], 1, 31, FALSE, FALSE, FALSE)
            /\ Ok(parsed.value.months) = parse_field(fields[4], 1, 12, FALSE, FALSE, TRUE)
            /\ Ok(parsed.value.days_of_week)
                    = parse_field(fields[5], 1, 7, FALSE, TRUE, FALSE)
            /\ parsed.value.years = Unbound
    /\ (Len(fields) \in {6, 7} /\ parsed.kind = "Ok") =>
            /\ Ok(parsed.value.seconds) = parse_field(fields[1], 0, 59, TRUE, FALSE, FALSE)
            /\ Ok(parsed.value.minutes) = parse_field(fields[2], 0, 59, TRUE, FALSE, FALSE)
            /\ Ok(parsed.value.hours) = parse_field(fields[3], 0, 23, TRUE, FALSE, FALSE)
            /\ Ok(parsed.value.days_of_month)
                    = parse_field(fields[4], 1, 31, TRUE, FALSE, FALSE)
            /\ Ok(parsed.value.months) = parse_field(fields[5], 1, 12, TRUE, FALSE, TRUE)
            /\ Ok(parsed.value.days_of_week)
                    = parse_field(fields[6], 1, 7, TRUE, TRUE, FALSE)
            /\ Len(fields) = 6 => parsed.value.years = All
            /\ Len(fields) = 7 =>
                    Ok(parsed.value.years)
                        = parse_field(fields[7], MIN_YEAR, MAX_YEAR, TRUE, FALSE, FALSE)
    /\ Len(fields) = 6 => parsed = from_str(expression \o <<" ", "*">>)

\* from_str has returned and nothing else has happened.  Neither the
\* expression nor the outcome of from_str changes afterwards, so what holds
\* of them here holds in every later state.
JustParsed == pc # "start" /\ starting_datetime = NoDateTime

\* C10: the number of fields selects the dialect: 5 fields are minute ..
\* day-of-week with seconds Ignore and years Unbound, 6 are second ..
\* day-of-week with years All, 7 add the year; another count is the error
\* ArgumentCount; and 6 fields parse as the 7 made by appending `*`.
C10_FieldCount ==
    JustParsed => FieldCountSelects(split_whitespace(expression))

\* A six-field expression was parsed into a schedule.
C10_Witness ==
    /\ parsed.kind = "Ok"
    /\ Len(split_whitespace(expression)) = 6
    /\ parsed.value.years = All
    /\ parsed.value.seconds.kind = "Constrained"

(***************************************************************************)
(* Properties of the parser, field by field.                               *)
(***************************************************************************)
\* The field that stands i-th among n.
Position(n, i) ==
    IF n = 5
    THEN <<"minutes", "hours", "days_of_month", "months", "days_of_week">>[i]
    ELSE <<"seconds", "minutes", "hours", "days_of_month", "months",
           "days_of_week", "years">>[i]

\* The domain of a field.
DomainOf(name) ==
    CASE name \in {"seconds", "minutes"} -> 0..59
      [] name = "hours" -> 0..23
      [] name = "days_of_month" -> 1..31
      [] name = "months" -> 1..12
      [] name = "days_of_week" -> 1..7
      [] name = "years" -> 1970..2099

Least(set) == CHOOSE x \in set : \A y \in set : x <= y
Greatest(set) == CHOOSE x \in set : \A y \in set : x >= y

\* One comma-item parsed on its own as an item of the i-th of n fields.
ItemAs(n, i, item) ==
    parse_item(item, Least(DomainOf(Position(n, i))), Greatest(DomainOf(Position(n, i))),
               n # 5, Position(n, i) = "days_of_week", Position(n, i) = "months")

\* What C11 says of the outcome of from_str.
MalformedRejected(fields) ==
    Len(fields) \in {5, 6, 7} =>
        \A i \in 1..Len(fields) :
            \A k \in 1..Len(split(fields[i], ",")) :
                ItemAs(Len(fields), i, split(fields[i], ",")[k]).kind = "Err" =>
                    parsed.kind = "Err"

\* C11: when a comma-item of a field is malformed, wherever it stands in
\* its list, from_str returns an error and no Schedule.
C11_MalformedRejected ==
    pc # "start" => MalformedRejected(split_whitespace(expression))

\* The item has a step that is no number, negative, or zero.
BadStep(step_iter) ==
    /\ Len(step_iter) = 2
    /\ \/ parse_int(step_iter[2]).kind = "Err"
       \/ parse_int(step_iter[2]) = Ok(0)

\* What C12 says of the outcome of from_str.
BadStepRejected(fields) ==
    Len(fields) \in {5, 6, 7} =>
        \A i \in 1..Len(fields) :
            \A k \in 1..Len(split(fields[i], ",")) :
                BadStep(splitn2(split(fields[i], ",")[k], "/")) => parsed.kind = "Err"

\* C12: a step that is zero, negative or malformed makes from_str return an
\* error: it neither aborts nor returns a Schedule.
C12_BadStepRejected ==
    pc # "start" => BadStepRejected(split_whitespace(expression))

\* C13: after a successful parse every value of every explicit set lies in
\* its field's domain.
C13_SetsInDomain ==
    parsed.kind = "Ok" =>
        \A name \in {"seconds", "minutes", "hours", "days_of_month", "months",
                     "days_of_week", "years"} :
            parsed.value[name].kind = "Constrained" =>
                parsed.value[name].set \subseteq DomainOf(name)

\* The field is one plain range: no comma, no step, one dash.
IsPlainRange(field) ==
    /\ Find(field, ",") = 0
    /\ Find(field, "/") = 0
    /\ Find(field, "-") # 0

\* The endpoints of a plain range standing i-th among n fields, resolved.
Endpoints(n, i, dash_iter) ==
    parse_range(dash_iter[1], dash_iter[2],
                n # 5, Position(n, i) = "months", Position(n, i) = "days_of_week")

\* What C14 says of the i-th field, a plain range with endpoints `range`.
RangeRoundTrip(fields, i, range) ==
    IF range = Ok(<<Least(DomainOf(Position(Len(fields), i))),
                    Greatest(DomainOf(Position(Len(fields), i)))>>)
    THEN /\ parsed.kind = "Ok"
         /\ parsed.value[Position(Len(fields), i)] = All
         /\ parsed = from_str(Join([fields EXCEPT ![i] = star]))
    ELSE parsed.kind = "Ok" =>
            parsed.value[Position(Len(fields), i)]
                = Constrained(range.value[1]..range.value[2])

\* What C14 says of the outcome of from_str.
RangesRoundTrip(fields) ==
    (Len(fields) \in {5, 6, 7} /\ parsed.kind # "Err") =>
        \A i \in 1..Len(fields) :
            IsPlainRange(fields[i]) =>
                RangeRoundTrip(fields, i,
                               Endpoints(Len(fields), i, splitn2(fields[i], "-")))

\* C14: a field given as a plain range over its whole domain, by numbers or
\* by names, parses as `*` does, and the two Schedules are equal; another
\* plain range parses to the set of its values.
C14_FullRangeIsAll ==
    JustParsed => RangesRoundTrip(split_whitespace(expression))

\* A month field given as JAN-DEC was parsed to All.
C14_Witness ==
    /\ parsed.kind = "Ok"
    /\ \E i \in 1..Len(split_whitespace(expression)) :
            /\ to_uppercase(split_whitespace(expression)[i])
                    = <<"J", "A", "N", "-", "D", "E", "C">>
            /\ parsed.value.months = All
    /\ parsed.value.years = All

\* The weekdays by name, Sunday first.
WeekdayNames ==
    << <<"S", "U", "N">>, <<"M", "O", "N">>, <<"T", "U", "E">>, <<"W", "E", "D">>,
       <<"T", "H", "U">>, <<"F", "R", "I">>, <<"S", "A", "T">> >>

\* The weekday (1 = Sunday ... 7 = Saturday) C15 gives a token in an
\* expression of n fields; 0 when it gives it none.
WeekdayOf(token, n) ==
    IF \E k \in 1..7 : to_uppercase(token) = WeekdayNames[k]
    THEN CHOOSE k \in 1..7 : to_uppercase(token) = WeekdayNames[k]
    ELSE IF Len(token) # 1 \/ ~IsDigit(token[1]) \/ DigitValue(token[1]) > 7 THEN 0
    ELSE IF n = 5 THEN (IF DigitValue(token[1]) \in {0, 7} THEN 1
                        ELSE DigitValue(token[1]) + 1)
    ELSE DigitValue(token[1])

\* What C15 says of a day-of-week field made of the bare tokens `items`.
WeekdaysRead(items, n) ==
    /\ ((\A k \in 1..Len(items) : WeekdayOf(items[k], n) # 0) /\ parsed.kind = "Ok") =>
            parsed.value.days_of_week
                = Constrained({WeekdayOf(items[k], n) : k \in 1..Len(items)})
    /\ (n # 5 /\ items[1] = <<"0">>) =>
            \/ parsed = Err("InvalidDayOfWeekIndicator", <<"0">>)
            \/ parsed.kind = "Err" /\ parsed.error # "InvalidDayOfWeekIndicator"

\* The field holds bare tokens only: no `*`, no range, no step.
IsBareList(field) ==
    /\ Find(field, "*") = 0
    /\ Find(field, "/") = 0
    /\ Find(field, "-") = 0

\* What C15 says of the outcome of from_str.
WeekdayDialect(fields) ==
    (Len(fields) \in {5, 6, 7} /\ IsBareList(fields[IF Len(fields) = 5 THEN 5 ELSE 6])) =>
        WeekdaysRead(split(fields[IF Len(fields) = 5 THEN 5 ELSE 6], ","), Len(fields))

\* C15: in five fields the digits 0 and 7 are Sunday and 1..6 Monday ..
\* Saturday; in six or seven fields 1..7 are Sunday .. Saturday and 0 is the
\* error InvalidDayOfWeekIndicator; names mean the same in both, in any
\* letter case; what is stored is always 1 = Sunday ... 7 = Saturday.
C15_WeekdayDialect ==
    JustParsed => WeekdayDialect(split_whitespace(expression))

\* Five fields with the digit 0 were parsed: Sunday is stored as 1.
C15_Witness ==
    /\ parsed.kind = "Ok"
    /\ Len(split_whitespace(expression)) = 5
    /\ split(split_whitespace(expression)[5], ",")[1] = <<"0">>
    /\ 1 \in parsed.value.days_of_week.set

\* The months by name, January first.
MonthsByName ==
    << <<"J", "A", "N">>, <<"F", "E", "B">>, <<"M", "A", "R">>, <<"A", "P", "R">>,
       <<"M", "A", "Y">>, <<"J", "U", "N">>, <<"J", "U", "L">>, <<"A", "U", "G">>,
       <<"S", "E", "P">>, <<"O", "C", "T">>, <<"N", "O", "V">>, <<"D", "E", "C">> >>

\* The number a token of decimal digits writes; -1 for another token.
NumberOf(token) ==
    IF token # <<>> /\ \A k \in 1..Len(token) : IsDigit(token[k])
    THEN DecimalValue(token)
    ELSE -1

\* The value C20 gives a token of the field `name` in an expression of n
\* fields: names stand for their numbers; -1 when it gives it none.
ValueOf(token, name, n) ==
    IF name = "months" /\ \E k \in 1..12 : to_uppercase(token) = MonthsByName[k]
    THEN CHOOSE k \in 1..12 : to_uppercase(token) = MonthsByName[k]
    ELSE IF name = "days_of_week"
    THEN (IF WeekdayOf(token, n) = 0 THEN -1 ELSE WeekdayOf(token, n))
    ELSE NumberOf(token)

\* The values a, a + s, ... up to b of a field with domain lo..hi; `plain`
\* for a range without a step.
Stride(a, b, s, lo, hi, plain) ==
    [ok |-> s >= 1 /\ a \in lo..hi /\ b \in lo..hi /\ a <= b,
     any |-> plain /\ a = lo /\ b = hi,
     set |-> {x \in a..b : s >= 1 /\ (x - a) % s = 0}]

\* What C20 says one comma-item denotes, the item split at its first `/`
\* and what stands before that at its first `-`.
ItemDenotes(step_iter, dash_iter, s, name, n, lo, hi) ==
    CASE dash_iter = <<star>> /\ Len(step_iter) = 1 ->
            [ok |-> TRUE, any |-> TRUE, set |-> lo..hi]
      [] dash_iter = <<star>> /\ Len(step_iter) = 2 ->
            Stride(lo, hi, s, lo, hi, FALSE)
      [] dash_iter # <<star>> /\ Len(dash_iter) = 2 ->
            Stride(ValueOf(dash_iter[1], name, n), ValueOf(dash_iter[2], name, n),
                   s, lo, hi, Len(step_iter) = 1)
      [] dash_iter # <<star>> /\ Len(dash_iter) = 1 /\ Len(step_iter) = 2 ->
            Stride(ValueOf(dash_iter[1], name, n), hi, s, lo, hi, FALSE)
      [] OTHER ->
            Stride(ValueOf(dash_iter[1], name, n), ValueOf(dash_iter[1], name, n),
                   1, lo, hi, FALSE)

\* The step of an item, 1 when it has none.
StepOf(step_iter) ==
    IF Len(step_iter) = 2 THEN NumberOf(step_iter[2]) ELSE 1

\* What the comma-items of one field denote, item by item.
Denoted(items, name, n) ==
    [k \in 1..Len(items) |->
        ItemDenotes(splitn2(items[k], "/"), splitn2(splitn2(items[k], "/")[1], "-"),
                    StepOf(splitn2(items[k], "/")),
                    name, n, Least(DomainOf(name)), Greatest(DomainOf(name)))]

\* Every item is well-formed and in its domain.
AllOk(d) == \A k \in 1..Len(d) : d[k].ok

\* The stored constraint is the union of what the items denote.
FieldAgrees(d, field) ==
    AllOk(d) =>
        IF \E k \in 1..Len(d) : d[k].any THEN field = All
        ELSE field = Constrained(UNION {d[k].set : k \in 1..Len(d)})

RECURSIVE Commas(_)
\* The items, one comma between them.
Commas(items) ==
    IF Len(items) = 1 THEN items[1]
    ELSE items[1] \o comma \o Commas(Tail(items))

\* The field with its comma-items in the opposite order.
Backwards(field) ==
    Commas([k \in 1..Len(split(field, ",")) |->
                split(field, ",")[Len(split(field, ",")) + 1 - k]])

\* What C20 says of the outcome of from_str.
UnionOfItems(fields) ==
    Len(fields) \in {5, 6, 7} =>
        /\ (\A i \in 1..Len(fields) :
                AllOk(Denoted(split(fields[i], ","), Position(Len(fields), i),
                              Len(fields)))) =>
                /\ parsed.kind = "Ok"
                /\ parsed = from_str(Join([i \in 1..Len(fields) |-> Backwards(fields[i])]))
        /\ parsed.kind = "Ok" =>
                \A i \in 1..Len(fields) :
                    FieldAgrees(Denoted(split(fields[i], ","), Position(Len(fields), i),
                                        Len(fields)),
                                parsed.value[Position(Len(fields), i)])

\* C20: when every comma-item of a field is well-formed and in its domain,
\* the stored constraint is the union over the items of {v}, a..b, the
\* stride from the minimum (`*/s`), from v (`v/s`) up to the maximum, or
\* from a up to b (`a-b/s`), names standing for their numbers; it is All
\* when an item is `*` or a plain range over the domain; the items' order
\* and repetition do not matter.
C20_UnionOfItems ==
    JustParsed => UnionOfItems(split_whitespace(expression))

\* A list with a stepped range, a repeated value and names was parsed.
C20_Witness ==
    /\ expression = Mixed
    /\ parsed.kind = "Ok"
    /\ parsed.value.seconds = Constrained({5, 7, 15, 25})
    /\ parsed.value.months = Constrained({1, 3, 5})
    /\ parsed.value.days_of_week = Constrained({3, 4, 5})

(***************************************************************************)
(* Properties of the search.                                               *)
(***************************************************************************)
\* The length of a month in the Gregorian calendar.
CalendarDays(mo, y) ==
    CASE mo \in {4, 6, 9, 11} -> 30
      [] mo = 2 -> IF (y % 4 = 0 /\ y % 100 # 0) \/ y % 400 = 0 THEN 29 ELSE 28
      [] OTHER -> 31

\* The years C16 names, and the ends of the model's range of years.
LeapTestYears == {1900, 1970, 2000, 2020, 2021, 2024, 2099, 2100}

\* The leap days among Moments.
LeapDays == {m \in Moments : m.month = 2 /\ m.day = 29}

\* C16: months have their Gregorian lengths; no advance returns a day
\* beyond its month's length; and an advance does not pass over a Feb 29
\* that satisfies the schedule: forward it returns that day or an earlier
\* instant, backward that day or a later one.
C16_LeapYears ==
    /\ \A y \in LeapTestYears : \A mo \in MONTHS :
            days_in_month(mo, y) = CalendarDays(mo, y)
    /\ \A i \in 1..Len(calls) :
            /\ calls[i].result.kind = "Some" =>
                    calls[i].result.value.day
                        <= CalendarDays(calls[i].result.value.month,
                                        calls[i].result.value.year)
            /\ Searched(i) =>
                    \A m \in LeapDays :
                        (/\ Satisfies(parsed.value, m)
                         /\ IF calls[i].op = "next" THEN Before(calls[i].from, m)
                            ELSE Before(m, calls[i].from)) =>
                            /\ calls[i].result.kind = "Some"
                            /\ IF calls[i].op = "next"
                               THEN ~Before(m, calls[i].result.value)
                               ELSE ~Before(calls[i].result.value, m)

\* C18: a backward search on a schedule whose years are Unbound never
\* returns an instant of a year before MIN_YEAR, and returns no-result from
\* a reference that lies before MIN_YEAR.
C18_BackwardFloor ==
    \A i \in 1..Len(calls) :
        (/\ calls[i].op = "next_back"
         /\ Searched(i)
         /\ parsed.value.years = Unbound) =>
            /\ calls[i].result.kind = "Some" =>
                    calls[i].result.value.year >= MIN_YEAR
            /\ calls[i].from.year < MIN_YEAR =>
                    calls[i].result.kind = "None"

\* The loop at `level` is about to take the value x and open the next finer
\* loop with the bound `bound`: when x or a coarser field of the candidate
\* differs from the reference, the bound is the direction's extreme.
ResetBound(x, same, bound, extreme) ==
    (x # NoValue /\ ~same) => bound = extreme

\* C19: the bound a search uses for a field is the reference's value only
\* while every coarser field of the candidate, the year included, equals the
\* reference's; otherwise it is the direction's extreme.
C19_ResetPropagation ==
    pc = "searching" =>
        LET ref == helper.initial_datetime
            c == candidate
        IN  CASE level = "year" ->
                    ResetBound(next_in(years(parsed.value, ref, direction).set,
                                       ranges["year"], direction),
                               next_in(years(parsed.value, ref, direction).set,
                                       ranges["year"], direction) = ref.year,
                               helper_months(helper), helper.reset_months)
              [] level = "month" ->
                    ResetBound(next_in(schedule_months(parsed.value),
                                       ranges["month"], direction),
                               /\ c.year = ref.year
                               /\ next_in(schedule_months(parsed.value),
                                          ranges["month"], direction) = ref.month,
                               helper_days(helper), helper.reset_days)
              [] level = "day" ->
                    ResetBound(next_in(schedule_days_of_month(parsed.value),
                                       ranges["day"], direction),
                               /\ c.year = ref.year /\ c.month = ref.month
                               /\ next_in(schedule_days_of_month(parsed.value),
                                          ranges["day"], direction) = ref.day,
                               helper_hours(helper), helper.reset_hours)
              [] level = "hour" ->
                    ResetBound(next_in(schedule_hours(parsed.value),
                                       ranges["hour"], direction),
                               /\ c.year = ref.year /\ c.month = ref.month
                               /\ c.day = ref.day
                               /\ next_in(schedule_hours(parsed.value),
                                          ranges["hour"], direction) = ref.hour,
                               helper_minutes(helper), helper.reset_minutes)
              [] level = "minute" /\ schedule_seconds(parsed.value) # {} ->
                    ResetBound(next_in(schedule_minutes(parsed.value),
                                       ranges["minute"], direction),
                               /\ c.year = ref.year /\ c.month = ref.month
                               /\ c.day = ref.day /\ c.hour = ref.hour
                               /\ next_in(schedule_minutes(parsed.value),
                                          ranges["minute"], direction) = ref.minute,
                               helper_seconds(helper), helper.reset_seconds)
              [] OTHER -> TRUE

\* The days of 2016 .. 2022 on which Europe/London changed its offset:
\* <<year, day of March, day of October>>.
LondonChanges ==
    { <<2016, 27, 30>>, <<2017, 26, 29>>, <<2018, 25, 28>>, <<2019, 31, 27>>,
      <<2020, 29, 25>>, <<2021, 28, 31>>, <<2022, 27, 30>> }

\* The civil time lies in an hour Europe/London skipped or repeated.
InLondonWindow(dt) ==
    /\ dt.hour = 1
    /\ \E ch \in LondonChanges :
            /\ dt.year = ch[1]
            /\ \/ dt.month = 3 /\ dt.day = ch[2]
               \/ dt.month = 10 /\ dt.day = ch[3]

\* Civil times of Europe/London next to those hours of 2019, and others the
\* schedules of the model match around them.
WindowEdges ==
    { DateTime(2019, 3, 31, 0, 55, 0), DateTime(2019, 3, 31, 0, 59, 59),
      DateTime(2019, 3, 31, 2, 0, 0), DateTime(2019, 3, 31, 2, 5, 0),
      DateTime(2019, 3, 30, 1, 30, 0), DateTime(2019, 4, 1, 1, 30, 0),
      DateTime(2019, 10, 27, 0, 59, 59), DateTime(2019, 10, 27, 2, 0, 0),
      DateTime(2019, 10, 26, 1, 30, 0), DateTime(2019, 10, 28, 1, 30, 0) }

\* The search is about to build a candidate the timezone refuses.
Refused ==
    /\ pc = "searching"
    /\ timezone = "Europe/London"
    /\ \/ /\ level = "second"
          /\ next_in(schedule_seconds(parsed.value), ranges["second"], direction)
                # NoValue
       \/ /\ level = "minute"
          /\ schedule_seconds(parsed.value) = {}
          /\ next_in(schedule_minutes(parsed.value), ranges["minute"], direction)
                # NoValue
    /\ InLondonWindow(candidate)

\* A refused candidate is passed over and nothing else happens: the search
\* goes on in the same loop with the same helper, one value further.
SkipsOnly ==
    Refused =>
        /\ pc' = "searching"
        /\ level' = level
        /\ helper' = helper
        /\ ranges'[level] = taken(ranges[level],
                                  next_in(IF level = "second"
                                          THEN schedule_seconds(parsed.value)
                                          ELSE schedule_minutes(parsed.value),
                                          ranges[level], direction),
                                  direction)
        /\ \A lv \in Levels \ {level} : ranges'[lv] = ranges[lv]

\* Civil times within those hours of 2019: candidates the timezone refuses.
WindowCandidates ==
    { DateTime(2019, 3, 31, 1, 0, 0), DateTime(2019, 3, 31, 1, 30, 0),
      DateTime(2019, 3, 31, 1, 55, 0), DateTime(2019, 10, 27, 1, 0, 0),
      DateTime(2019, 10, 27, 1, 3, 28), DateTime(2019, 10, 27, 1, 3, 30),
      DateTime(2019, 10, 27, 1, 30, 0), DateTime(2019, 10, 27, 1, 59, 59) }

\* m lies beyond the reference of the i-th advance, and before what it
\* returned when it returned an instant.
Between(i, m) ==
    IF calls[i].op = "next"
    THEN /\ Before(calls[i].from, m)
         /\ calls[i].result.kind = "Some" => Before(m, calls[i].result.value)
    ELSE /\ Before(m, calls[i].from)
         /\ calls[i].result.kind = "Some" => Before(calls[i].result.value, m)

\* What a search in Europe/London returned lies outside those hours.  When
\* a civil time within them matches the schedule and lies in the way of the
\* search, the search did not fail, and what it returned lies strictly
\* beyond its reference with no match at a WindowEdges instant in between.
OutsideWindows(i) ==
    /\ calls[i].result.kind = "Some" => ~InLondonWindow(calls[i].result.value)
    /\ (/\ Searched(i)
        /\ \E w \in WindowCandidates : Satisfies(parsed.value, w) /\ Between(i, w)) =>
            /\ calls[i].result.kind # "panic"
            /\ calls[i].result.kind = "Some" =>
                    IF calls[i].op = "next"
                    THEN Before(calls[i].from, calls[i].result.value)
                    ELSE Before(calls[i].result.value, calls[i].from)
            /\ \A m \in WindowEdges : ~(Satisfies(parsed.value, m) /\ Between(i, m))

\* The searches made so far in Europe/London ended as C17 says.
AllOutsideWindows ==
    timezone = "Europe/London" => \A i \in 1..Len(calls) : OutsideWindows(i)

ClassicDay(d) == IF d \in {0, 7} THEN 1 ELSE d + 1

\* The weekdays a stored constraint denotes.
DaysDenoted(field) == IF field.kind = "All" THEN 1..7 ELSE field.set

\* What C21 says of a day-of-week field a-b of five fields.
DigitRangeRead(a, b) ==
    (0 <= a /\ a <= b /\ b <= 7) =>
        /\ parsed.kind = "Ok"
        /\ DaysDenoted(parsed.value.days_of_week) = {ClassicDay(d) : d \in a..b}

\* What C21 says of the outcome of from_str.
DigitRangesRead(fields) ==
    (Len(fields) = 5 /\ IsPlainRange(fields[5])) =>
        DigitRangeRead(NumberOf(splitn2(fields[5], "-")[1]),
                       NumberOf(splitn2(fields[5], "-")[2]))

\* C21: in five fields a day-of-week range a-b of digits, 0 <= a <= b <= 7,
\* parses and denotes the weekdays the digits a, a + 1, ..., b name, 0 and 7
\* both Sunday: a range ending in 7 includes Sunday, and 0-7 and 1-7 are
\* every day of the week.
C21_DigitWeekdayRange ==
    JustParsed => DigitRangesRead(split_whitespace(expression))

====
